---- MODULE Spec2Model ----
(***************************************************************************)
(* Model of victoria_email/core/config.py: the marshmallow schemas         *)
(* StorageAccountSchema and MailToilConfigSchema, the schema instance      *)
(* CONFIG_SCHEMA (unknown=EXCLUDE), the objects StorageAccount and         *)
(* MailToilConfig, and the two accessors of MailToilConfig.                *)
(*                                                                         *)
(* A document is the value handed to CONFIG_SCHEMA.load: a tree of tagged  *)
(* values (string, non-string scalar, null, list, mapping), as a YAML      *)
(* parser produces it.  A loaded object is a different kind of value:      *)
(* plain strings, sequences of strings, functions from cluster names to    *)
(* strings or to StorageAccount records.  Loading converts the first kind  *)
(* into the second, dumping converts back.                                 *)
(***************************************************************************)
EXTENDS Naturals, Sequences, FiniteSets, TLC

VARIABLES doc, pc, outcome, config, original, lastCall, hadFailure

vars == <<doc, pc, outcome, config, original, lastCall, hadFailure>>

----------------------------------------------------------------------------
(* Bounds *)

MaxQueues == 2

----------------------------------------------------------------------------
(* Document values *)

Str(s) == [t |-> "str", v |-> s]
Int(s) == [t |-> "int", v |-> s]
Null == [t |-> "null", v |-> ""]
Lst(q) == [t |-> "list", v |-> q]
Map(f) == [t |-> "map", v |-> f]

Has(m, name) == m.t = "map" /\ Str(name) \in DOMAIN m.v
Get(m, name) == m.v[Str(name)]

(* Result of a deserialization step: the exception it raises ("none" on    *)
(* success), marshmallow's reason for it, and the deserialized value.      *)
Ok(x) == [raised |-> "none", why |-> "", val |-> x]
Fail(reason, dummy) == [raised |-> "ValidationError", why |-> reason, val |-> dummy]
Crash(dummy) == [raised |-> "TypeError", why |-> "argument", val |-> dummy]

----------------------------------------------------------------------------
(* marshmallow field types as the schemas declare them *)

(* fields.Str()._deserialize: a string is taken as is, anything else is    *)
(* "Not a valid string."; Field.deserialize rejects None first             *)
(* (allow_none is False for a field without a None default).               *)
Str_deserialize(x) ==
  IF x.t = "null" THEN Fail("null", "")
  ELSE IF x.t = "str" THEN Ok(x.v)
  ELSE Fail("invalid", "")

(* fields.Str()._serialize *)
Str_serialize(s) == Str(s)

(* fields.List(fields.Str()): the value must be a list and every element   *)
(* must deserialize as a Str; the elements keep their order.               *)
List_Str_deserialize(x) ==
  IF x.t = "null" THEN Fail("null", <<>>)
  ELSE IF x.t # "list" THEN Fail("invalid", <<>>)
  ELSE IF \E i \in DOMAIN x.v : Str_deserialize(x.v[i]).raised # "none"
       THEN Fail("element", <<>>)
  ELSE Ok([i \in DOMAIN x.v |-> Str_deserialize(x.v[i]).val])

List_Str_serialize(q) == Lst([i \in DOMAIN q |-> Str_serialize(q[i])])

(* fields.Dict(keys=fields.Str(), values=fields.Str()): the value must be  *)
(* a mapping, every key and every value must deserialize as a Str.         *)
Dict_Str_Str_deserialize(x) ==
  IF x.t = "null" THEN Fail("null", <<>>)
  ELSE IF x.t # "map" THEN Fail("invalid", <<>>)
  ELSE IF \E k \in DOMAIN x.v : \/ Str_deserialize(k).raised # "none"
                                \/ Str_deserialize(x.v[k]).raised # "none"
       THEN Fail("entry", <<>>)
  ELSE Ok([c \in {Str_deserialize(k).val : k \in DOMAIN x.v}
             |-> Str_deserialize(x.v[Str(c)]).val])

Dict_Str_Str_serialize(d) ==
  Map([k \in {Str_serialize(c) : c \in DOMAIN d} |-> Str_serialize(d[k.v])])

----------------------------------------------------------------------------
(* StorageAccount and StorageAccountSchema *)

(* StorageAccount.__init__ *)
StorageAccount(account_name, key) == [account_name |-> account_name, key |-> key]

(* The fields StorageAccountSchema declares. *)
StorageAccountSchema_fields == {"account_name", "key"}

(* Faulty variant of StorageAccountSchema_required: key declared without   *)
(* required=True.                                                          *)
StorageAccountSchema_key_optional(name) == name # "key"

(* Both are declared required=True. *)
StorageAccountSchema_required(name) == TRUE

(* Faulty variant of StorageAccountSchema_unknown: the nested schema given *)
(* the policy of the top level.                                            *)
StorageAccountSchema_unknown_exclude == "exclude"

(* The class sets no Meta.unknown and is instantiated by fields.Nested     *)
(* without one: marshmallow's default, RAISE, applies.                     *)
StorageAccountSchema_unknown == "raise"

(* Faulty variant of make_storage_account: the two values passed by        *)
(* position, in the wrong order.                                           *)
make_storage_account_positional(data) ==
  IF DOMAIN data = {"account_name", "key"}
  THEN Ok(StorageAccount(data["key"], data["account_name"]))
  ELSE Crash(StorageAccount("", ""))

(* @post_load make_storage_account: StorageAccount built from data as     *)
(* keyword arguments.  A call with a                                       *)
(* missing or an unexpected keyword argument is a TypeError.               *)
make_storage_account(data) ==
  IF DOMAIN data = {"account_name", "key"}
  THEN Ok(StorageAccount(data["account_name"], data["key"]))
  ELSE Crash(StorageAccount("", ""))

(* Schema.load of StorageAccountSchema, as fields.Nested runs it on one    *)
(* value of storage_accounts: type check, every declared field, the        *)
(* unknown keys under the schema's policy, then the post_load hook.        *)
StorageAccountSchema_load(x) ==
  IF x.t = "null" THEN Fail("null", StorageAccount("", ""))
  ELSE IF x.t # "map" THEN Fail("type", StorageAccount("", ""))
  ELSE
    LET declared == {Str(n) : n \in StorageAccountSchema_fields}
        unknown == DOMAIN x.v \ declared
        missing == {n \in StorageAccountSchema_fields :
                      ~Has(x, n) /\ StorageAccountSchema_required(n)}
        bad == {n \in StorageAccountSchema_fields :
                  Has(x, n) /\ Str_deserialize(Get(x, n)).raised # "none"}
        kept == {n \in StorageAccountSchema_fields : Has(x, n)}
                  \cup (IF StorageAccountSchema_unknown = "include"
                        THEN {k.v : k \in unknown} ELSE {})
        data == [n \in kept |->
                   IF n \in StorageAccountSchema_fields
                   THEN Str_deserialize(Get(x, n)).val ELSE ""]
    IN IF missing # {} THEN Fail("required", StorageAccount("", ""))
       ELSE IF bad # {} THEN Fail("invalid", StorageAccount("", ""))
       ELSE IF unknown # {} /\ StorageAccountSchema_unknown = "raise"
            THEN Fail("unknown", StorageAccount("", ""))
       ELSE make_storage_account(data)

(* Faulty variant of StorageAccountSchema_dump: key declared load_only, so *)
(* that the secret is never written out.                                   *)
StorageAccountSchema_dump_key_load_only(acct) ==
  Map([k \in {Str("account_name")} |-> Str_serialize(acct[k.v])])

(* Schema.dump of StorageAccountSchema: one entry per declared field, read *)
(* from the object's attribute of that name.                               *)
StorageAccountSchema_dump(acct) ==
  Map([k \in {Str(n) : n \in StorageAccountSchema_fields} |->
         Str_serialize(acct[k.v])])

(* fields.Dict(keys=fields.Str(), values=fields.Nested(StorageAccountSchema)) *)
Dict_Str_Nested_deserialize(x) ==
  IF x.t = "null" THEN Fail("null", <<>>)
  ELSE IF x.t # "map" THEN Fail("invalid", <<>>)
  ELSE IF \E k \in DOMAIN x.v : StorageAccountSchema_load(x.v[k]).raised = "TypeError"
       THEN Crash(<<>>)
  ELSE IF \E k \in DOMAIN x.v : \/ Str_deserialize(k).raised # "none"
                                \/ StorageAccountSchema_load(x.v[k]).raised # "none"
       THEN Fail("entry", <<>>)
  ELSE Ok([c \in {Str_deserialize(k).val : k \in DOMAIN x.v}
             |-> StorageAccountSchema_load(x.v[Str(c)]).val])

Dict_Str_Nested_serialize(d) ==
  Map([k \in {Str_serialize(c) : c \in DOMAIN d} |-> StorageAccountSchema_dump(d[k.v])])

----------------------------------------------------------------------------
(* MailToilConfig and MailToilConfigSchema *)

(* The value standing for "no MailToilConfig object". *)
NoConfig == [none |-> TRUE]

(* Faulty variant of MailToilConfig: the queues stored without their       *)
(* repeated names.                                                         *)
MailToilConfig_unique_queues(service_bus_connection_strings, queues, storage_accounts, vault_dir) ==
  LET first == {i \in DOMAIN queues : \A j \in DOMAIN queues : j < i => queues[j] # queues[i]}
      nth(k) == CHOOSE i \in first : Cardinality({j \in first : j < i}) = k - 1
  IN [service_bus_connection_strings |-> service_bus_connection_strings,
      queues |-> [k \in 1..Cardinality(first) |-> queues[nth(k)]],
      storage_accounts |-> storage_accounts,
      vault_dir |-> vault_dir]

(* MailToilConfig.__init__ *)
MailToilConfig(service_bus_connection_strings, queues, storage_accounts, vault_dir) ==
  [service_bus_connection_strings |-> service_bus_connection_strings,
   queues |-> queues,
   storage_accounts |-> storage_accounts,
   vault_dir |-> vault_dir]

(* The fields MailToilConfigSchema declares. *)
MailToilConfigSchema_fields ==
  {"service_bus_connection_strings", "queues", "storage_accounts", "vault_dir"}

(* Faulty variant of MailToilConfigSchema_required: vault_dir declared     *)
(* without required=True.                                                  *)
MailToilConfigSchema_vault_dir_optional(name) == name # "vault_dir"

(* All four are declared required=True. *)
MailToilConfigSchema_required(name) == TRUE

(* Faulty variant of MailToilConfigSchema_deserialize: vault_dir declared  *)
(* fields.Raw, which takes any value that is not null.                     *)
MailToilConfigSchema_deserialize_raw_vault_dir(name, x) ==
  CASE name = "service_bus_connection_strings" -> Dict_Str_Str_deserialize(x)
    [] name = "queues" -> List_Str_deserialize(x)
    [] name = "storage_accounts" -> Dict_Str_Nested_deserialize(x)
    [] name = "vault_dir" -> IF x.t = "null" THEN Fail("null", "") ELSE Ok(x.v)

(* The declared type of each field, applied to the field's raw value. *)
MailToilConfigSchema_deserialize(name, x) ==
  CASE name = "service_bus_connection_strings" -> Dict_Str_Str_deserialize(x)
    [] name = "queues" -> List_Str_deserialize(x)
    [] name = "storage_accounts" -> Dict_Str_Nested_deserialize(x)
    [] name = "vault_dir" -> Str_deserialize(x)

(* @post_load make_config: MailToilConfig built from data as keyword       *)
(* arguments.  A call with a missing or an unexpected keyword argument is  *)
(* a TypeError.                                                            *)
make_config(data) ==
  IF DOMAIN data = MailToilConfigSchema_fields
  THEN Ok(MailToilConfig(data["service_bus_connection_strings"], data["queues"],
                         data["storage_accounts"], data["vault_dir"]))
  ELSE Crash(NoConfig)

(* Schema.load of MailToilConfigSchema under an unknown-key policy: type   *)
(* check, every declared field, the unknown keys, then the post_load hook. *)
(* A TypeError out of a nested post_load hook leaves the load at once.     *)
MailToilConfigSchema_load(x, unknown_policy) ==
  IF x.t # "map" THEN Fail("type", NoConfig)
  ELSE
    LET declared == {Str(n) : n \in MailToilConfigSchema_fields}
        unknown == DOMAIN x.v \ declared
        present == {n \in MailToilConfigSchema_fields : Has(x, n)}
        missing == {n \in MailToilConfigSchema_fields \ present :
                      MailToilConfigSchema_required(n)}
        res(n) == MailToilConfigSchema_deserialize(n, Get(x, n))
        kept == present \cup (IF unknown_policy = "include"
                              THEN {k.v : k \in unknown} ELSE {})
        data == [n \in kept |-> IF n \in present THEN res(n).val ELSE ""]
    IN IF \E n \in present : res(n).raised = "TypeError" THEN Crash(NoConfig)
       ELSE IF missing # {} THEN Fail("required", NoConfig)
       ELSE IF \E n \in present : res(n).raised # "none" THEN Fail("invalid", NoConfig)
       ELSE IF unknown # {} /\ unknown_policy = "raise" THEN Fail("unknown", NoConfig)
       ELSE make_config(data)

(* Schema.dump of MailToilConfigSchema: one entry per declared field, read *)
(* from the object's attribute of that name and serialized by its type.    *)
MailToilConfigSchema_dump(obj) ==
  Map([k \in {Str(n) : n \in MailToilConfigSchema_fields} |->
        CASE k.v = "service_bus_connection_strings" -> Dict_Str_Str_serialize(obj[k.v])
          [] k.v = "queues" -> List_Str_serialize(obj[k.v])
          [] k.v = "storage_accounts" -> Dict_Str_Nested_serialize(obj[k.v])
          [] k.v = "vault_dir" -> Str_serialize(obj[k.v])])

(* Faulty variant of CONFIG_SCHEMA_unknown: the schema instantiated        *)
(* without unknown=EXCLUDE, which leaves marshmallow's default.            *)
CONFIG_SCHEMA_unknown_default == "raise"

(* CONFIG_SCHEMA = MailToilConfigSchema(unknown=EXCLUDE) *)
CONFIG_SCHEMA_unknown == "exclude"

CONFIG_SCHEMA_load(x) == MailToilConfigSchema_load(x, CONFIG_SCHEMA_unknown)

CONFIG_SCHEMA_dump(obj) == MailToilConfigSchema_dump(obj)

----------------------------------------------------------------------------
(* The accessors of MailToilConfig *)

NoAccount == StorageAccount("", "")

(* What a call does: the object after it, the exception it raises with the *)
(* message's parts, and the value it returns.                              *)
Returned(self, s, acct) ==
  [self |-> self, raised |-> "none", what |-> "", cluster |-> "", str |-> s, acct |-> acct]
Raised(self, what, cluster) ==
  [self |-> self, raised |-> "ValueError", what |-> what, cluster |-> cluster,
   str |-> "", acct |-> NoAccount]

(* Python truth of a str: only the empty string is false. *)
Truthy_str(s) == s # ""

(* Python truth of a StorageAccount: the class defines neither __bool__    *)
(* nor __len__, so every instance is true.                                 *)
Truthy_StorageAccount(acct) == TRUE

(* Faulty variant of get_service_bus_connection_str: a test of presence    *)
(* in place of the truth test.                                             *)
get_service_bus_connection_str_presence(self, cluster) ==
  IF cluster \notin DOMAIN self.service_bus_connection_strings
  THEN Raised(self, "service bus connection string", cluster)
  ELSE Returned(self, self.service_bus_connection_strings[cluster], NoAccount)

(* MailToilConfig.get_service_bus_connection_str: dict.get gives None for  *)
(* an absent key; None and "" both fail the truth test.                    *)
get_service_bus_connection_str(self, cluster) ==
  IF \/ cluster \notin DOMAIN self.service_bus_connection_strings
     \/ ~Truthy_str(self.service_bus_connection_strings[cluster])
  THEN Raised(self, "service bus connection string", cluster)
  ELSE Returned(self, self.service_bus_connection_strings[cluster], NoAccount)

(* Faulty variant of get_storage_account: dict.pop in place of dict.get,   *)
(* which takes the entry out of the mapping.                               *)
get_storage_account_pop(self, cluster) ==
  LET rest == [c \in DOMAIN self.storage_accounts \ {cluster} |-> self.storage_accounts[c]]
      after == [self EXCEPT !.storage_accounts = rest]
  IN IF \/ cluster \notin DOMAIN self.storage_accounts
        \/ ~Truthy_StorageAccount(self.storage_accounts[cluster])
     THEN Raised(after, "storage account", cluster)
     ELSE Returned(after, "", self.storage_accounts[cluster])

(* MailToilConfig.get_storage_account *)
get_storage_account(self, cluster) ==
  IF \/ cluster \notin DOMAIN self.storage_accounts
     \/ ~Truthy_StorageAccount(self.storage_accounts[cluster])
  THEN Raised(self, "storage account", cluster)
  ELSE Returned(self, "", self.storage_accounts[cluster])

----------------------------------------------------------------------------
(* The documents and objects the model runs on *)

Clusters == {"a", "b"}

(* Marks a top-level key the document does not hold. *)
Absent == [t |-> "absent", v |-> ""]

SeqsUpTo(S, n) == UNION {[1..k -> S] : k \in 0..n}

MapsOver(K, V) == UNION {[D -> V] : D \in SUBSET K}

(* service_bus_connection_strings: well-formed mappings (the empty string  *)
(* included), and values of the wrong shape.                               *)
SbWellFormed ==
  {Map(f) : f \in {g \in MapsOver({Str(c) : c \in Clusters},
                                  {Str(""), Str("cs1"), Str("cs2")}) :
                     /\ Str("a") \in DOMAIN g => g[Str("a")] # Str("cs2")
                     /\ Str("b") \in DOMAIN g => g[Str("b")] # Str("cs1")}}
SbMalformed ==
  {Map(Str("a") :> Str("cs1") @@ Str("b") :> Int("7")),
   Map(Int("1") :> Str("cs1")), Map(Str("a") :> Null), Str("cs1"), Lst(<<>>)}

(* queues *)
QWellFormed == {Lst(q) : q \in SeqsUpTo({Str("q1"), Str("q2")}, MaxQueues)}
QMalformed ==
  {Lst(<<Str("q1"), Int("7")>>), Lst(<<Null>>), Str("q1"), Map(<<>>)}

(* storage_accounts: entries, then mappings of them *)
Entry(account_name, key) == Map(Str("account_name") :> account_name @@ Str("key") :> key)
EntryA == {Entry(Str("n1"), Str("k1")), Entry(Str(""), Str(""))}
EntryB == {Entry(Str("n2"), Str("k2"))}
EntryMalformed ==
  {Map(Str("key") :> Str("k1")),
   Map(Str("account_name") :> Str("n1")),
   Map(Str("account_name") :> Str("n1") @@ Str("key") :> Str("k1") @@ Str("sku") :> Str("x")),
   Entry(Int("7"), Str("k1")),
   Entry(Str("n1"), Null),
   Str("n1"),
   Null}
SaOf(ea, eb) ==
  Map([k \in {Str(c) : c \in {c \in Clusters :
                                \/ c = "a" /\ ea # Absent
                                \/ c = "b" /\ eb # Absent}}
         |-> IF k.v = "a" THEN ea ELSE eb])
SaWellFormed == {SaOf(ea, eb) : ea \in EntryA \cup {Absent}, eb \in EntryB \cup {Absent}}
SaMalformed ==
  {SaOf(ea, eb) : ea \in EntryMalformed, eb \in EntryB}
    \cup {Map(Int("1") :> Entry(Str("n1"), Str("k1"))), Str("n1"), Lst(<<>>)}

(* vault_dir *)
VdWellFormed == {Str("/vault")}
VdMalformed == {Int("7")}

(* Top-level keys the schema does not declare. *)
ExtraKeys == {"comment", "version"}

(* The document holding the given value for each declared key that is not  *)
(* Absent, and the given extra keys.                                       *)
MkDoc(sb, q, sa, vd, extra) ==
  LET choice == [n \in MailToilConfigSchema_fields |->
                   CASE n = "service_bus_connection_strings" -> sb
                     [] n = "queues" -> q
                     [] n = "storage_accounts" -> sa
                     [] n = "vault_dir" -> vd]
      names == {n \in MailToilConfigSchema_fields : choice[n] # Absent}
  IN Map([k \in {Str(n) : n \in names \cup extra} |->
            IF k.v \in names THEN choice[k.v] ELSE Str("x")])

(* Objects built in memory by MailToilConfig(...) with values of the       *)
(* documented types.                                                       *)
Accounts == {StorageAccount("n1", "k1"), StorageAccount("n2", "k2"), StorageAccount("", "")}
Constructed ==
  {MailToilConfig(sb, q, sa, vd) :
     sb \in MapsOver(Clusters, {"", "cs1", "cs2"}),
     q \in SeqsUpTo({"q1", "q2"}, MaxQueues),
     sa \in MapsOver(Clusters, Accounts),
     vd \in {"/vault", ""}}

----------------------------------------------------------------------------
(* The state machine *)

NoCall ==
  [op |-> "none", arg |-> "", raised |-> "none", what |-> "", cluster |-> "",
   str |-> "", acct |-> NoAccount]

(* A document is at hand, nothing is loaded yet. *)
Init ==
  /\ \/ \E sb \in SbWellFormed \cup SbMalformed \cup {Null, Absent},
           q \in QWellFormed \cup QMalformed \cup {Null, Absent},
           sa \in SaWellFormed \cup SaMalformed \cup {Null, Absent},
           vd \in VdWellFormed \cup VdMalformed \cup {Null, Absent},
           extra \in SUBSET ExtraKeys :
           doc = MkDoc(sb, q, sa, vd, extra)
     \/ doc \in {Null, Lst(<<>>)}
  /\ pc = "start"
  /\ outcome = "pending"
  /\ config = NoConfig
  /\ original = NoConfig
  /\ lastCall = NoCall
  /\ hadFailure = FALSE

(* An object was built in memory, nothing is serialized yet. *)
InitRT ==
  /\ original \in Constructed
  /\ doc = Null
  /\ pc = "constructed"
  /\ outcome = "pending"
  /\ config = NoConfig
  /\ lastCall = NoCall
  /\ hadFailure = FALSE

(* CONFIG_SCHEMA.load(doc) *)
Load ==
  /\ pc = "start"
  /\ LET r == CONFIG_SCHEMA_load(doc)
     IN /\ outcome' = r.raised
        /\ config' = r.val
        /\ pc' = IF r.raised = "none" THEN "loaded" ELSE "failed"
  /\ UNCHANGED <<doc, original, lastCall, hadFailure>>

(* CONFIG_SCHEMA.dump(original) *)
Dump ==
  /\ pc = "constructed"
  /\ doc' = CONFIG_SCHEMA_dump(original)
  /\ pc' = "start"
  /\ UNCHANGED <<outcome, config, original, lastCall, hadFailure>>

Called(op, arg, r) ==
  /\ config' = r.self
  /\ lastCall' = [op |-> op, arg |-> arg, raised |-> r.raised, what |-> r.what,
                  cluster |-> r.cluster, str |-> r.str, acct |-> r.acct]
  /\ hadFailure' = (hadFailure \/ r.raised # "none")
  /\ UNCHANGED <<doc, pc, outcome, original>>

(* config.get_service_bus_connection_str(cluster); the caller survives a   *)
(* ValueError and goes on.                                                 *)
GetServiceBusConnectionStr(cluster) ==
  /\ pc = "loaded"
  /\ Called("get_service_bus_connection_str", cluster,
            get_service_bus_connection_str(config, cluster))

(* config.get_storage_account(cluster) *)
GetStorageAccount(cluster) ==
  /\ pc = "loaded"
  /\ Called("get_storage_account", cluster, get_storage_account(config, cluster))

Next ==
  \/ Load
  \/ \E cluster \in Clusters : GetServiceBusConnectionStr(cluster)
  \/ \E cluster \in Clusters : GetStorageAccount(cluster)

NextRT ==
  \/ Dump
  \/ Next

Spec == Init /\ [][Next]_vars

SpecRT == InitRT /\ [][NextRT]_vars

----------------------------------------------------------------------------
(* Shapes of document values, as the field table of the schema states them *)

Done == pc \in {"loaded", "failed"}

IsStr(x) == x.t = "str"
IsSeqOfStr(x) == x.t = "list" /\ \A i \in DOMAIN x.v : IsStr(x.v[i])
IsMapStrStr(x) == x.t = "map" /\ \A k \in DOMAIN x.v : IsStr(k) /\ IsStr(x.v[k])
HasAccountFields(e) ==
  /\ e.t = "map"
  /\ Has(e, "account_name") /\ IsStr(Get(e, "account_name"))
  /\ Has(e, "key") /\ IsStr(Get(e, "key"))
IsAccountEntry(e) ==
  HasAccountFields(e) /\ DOMAIN e.v = {Str("account_name"), Str("key")}
IsMapOfAccounts(x) ==
  x.t = "map" /\ \A k \in DOMAIN x.v : IsStr(k) /\ IsAccountEntry(x.v[k])

AllPresent(d) == d.t = "map" /\ \A n \in MailToilConfigSchema_fields : Has(d, n)

(* All four fields populated with values of the documented shape; keys the *)
(* schema does not declare may be there too.                               *)
WellFormed(d) ==
  /\ AllPresent(d)
  /\ IsMapStrStr(Get(d, "service_bus_connection_strings"))
  /\ IsSeqOfStr(Get(d, "queues"))
  /\ IsMapOfAccounts(Get(d, "storage_accounts"))
  /\ IsStr(Get(d, "vault_dir"))

LoadFailed == outcome = "ValidationError" /\ config = NoConfig /\ pc = "failed"

----------------------------------------------------------------------------
(* Claims *)

SbOf(d) == Get(d, "service_bus_connection_strings")
SaOfDoc(d) == Get(d, "storage_accounts")

MissingRequired(d) ==
  d.t = "map" /\ \E n \in MailToilConfigSchema_fields : ~Has(d, n) \/ Get(d, n) = Null

(* C1: a document in which one of the four top-level fields is missing or  *)
(* null fails to load with a validation error and yields no config; a      *)
(* config a load produced has all four fields, and the document gave each  *)
(* a non-null value.                                                       *)
C1_AllOrNothing ==
  /\ (Done /\ MissingRequired(doc)) => LoadFailed
  /\ pc = "loaded" =>
       /\ config # NoConfig
       /\ DOMAIN config = MailToilConfigSchema_fields
       /\ ~MissingRequired(doc)

(* One field missing, the other three well-formed: the load has failed. *)
C1_Witness ==
  /\ pc = "failed"
  /\ doc.t = "map"
  /\ ~Has(doc, "vault_dir")
  /\ Has(doc, "queues") /\ IsSeqOfStr(Get(doc, "queues"))
  /\ Has(doc, "storage_accounts") /\ IsMapOfAccounts(SaOfDoc(doc))
  /\ Has(doc, "service_bus_connection_strings") /\ IsMapStrStr(SbOf(doc))

(* C2: a well-formed document loads, and the config holds the supplied     *)
(* values: the key sets of both mappings, the queues in their order, the   *)
(* vault_dir; a cluster with a non-empty connection string gets that       *)
(* string back from get_service_bus_connection_str.                        *)
C2_LoadsSuppliedValues ==
  (Done /\ WellFormed(doc)) =>
    /\ pc = "loaded"
    /\ outcome = "none"
    /\ DOMAIN config.service_bus_connection_strings = {k.v : k \in DOMAIN SbOf(doc).v}
    /\ DOMAIN config.storage_accounts = {k.v : k \in DOMAIN SaOfDoc(doc).v}
    /\ Len(config.queues) = Len(Get(doc, "queues").v)
    /\ \A i \in 1..Len(Get(doc, "queues").v) : config.queues[i] = Get(doc, "queues").v[i].v
    /\ config.vault_dir = Get(doc, "vault_dir").v
    /\ (/\ lastCall.op = "get_service_bus_connection_str"
        /\ Str(lastCall.arg) \in DOMAIN SbOf(doc).v
        /\ SbOf(doc).v[Str(lastCall.arg)].v # "")
       => /\ lastCall.raised = "none"
          /\ lastCall.str = SbOf(doc).v[Str(lastCall.arg)].v

(* A well-formed document with two queues in the order q2, q1 was loaded   *)
(* and the connection string of a cluster was read.                        *)
C2_Witness ==
  /\ pc = "loaded"
  /\ WellFormed(doc)
  /\ Get(doc, "queues") = Lst(<<Str("q2"), Str("q1")>>)
  /\ lastCall.op = "get_service_bus_connection_str"
  /\ lastCall.str = "cs2"

(* C3: get_service_bus_connection_str raises, with the cluster name in the *)
(* message, exactly when the cluster is no key of the mapping or is mapped *)
(* to the empty string; otherwise it returns the mapped string.  The error *)
(* for a cluster mapped to "" is the error for a missing cluster.          *)
C3_ServiceBusLookup ==
  (pc = "loaded" /\ lastCall.op = "get_service_bus_connection_str") =>
    LET m == SbOf(doc).v
        c == lastCall.arg
        notFound == Str(c) \notin DOMAIN m \/ m[Str(c)] = Str("")
    IN /\ lastCall.raised = "ValueError" <=> notFound
       /\ notFound => /\ lastCall.cluster = c
                      /\ lastCall.what = "service bus connection string"
                      /\ lastCall.str = ""
       /\ ~notFound => /\ lastCall.raised = "none"
                       /\ lastCall.str = m[Str(c)].v

(* A cluster that is configured, with the empty string, was looked up and  *)
(* the call raised.                                                        *)
C3_Witness ==
  /\ pc = "loaded"
  /\ lastCall.op = "get_service_bus_connection_str"
  /\ lastCall.raised = "ValueError"
  /\ Str(lastCall.arg) \in DOMAIN SbOf(doc).v

(* C4: on a loaded config get_storage_account raises exactly when the      *)
(* cluster is no key of storage_accounts, and otherwise returns an account *)
(* whose account_name and key are the ones the document gave the cluster.  *)
C4_StorageAccountLookup ==
  (pc = "loaded" /\ lastCall.op = "get_storage_account") =>
    LET m == SaOfDoc(doc).v
        c == lastCall.arg
    IN /\ lastCall.raised = "ValueError" <=> Str(c) \notin DOMAIN m
       /\ lastCall.raised = "ValueError" => lastCall.cluster = c
       /\ Str(c) \in DOMAIN m =>
            /\ lastCall.raised = "none"
            /\ lastCall.acct.account_name = Get(m[Str(c)], "account_name").v
            /\ lastCall.acct.key = Get(m[Str(c)], "key").v

(* The account of a cluster whose entry holds empty strings was returned,  *)
(* and so was one with a name and a key.                                   *)
C4_Witness ==
  /\ pc = "loaded"
  /\ lastCall.op = "get_storage_account"
  /\ lastCall.raised = "none"
  /\ lastCall.arg = "a"
  /\ lastCall.acct = StorageAccount("", "")
  /\ Str("b") \in DOMAIN SaOfDoc(doc).v

EntryLacksField(d) ==
  /\ d.t = "map" /\ Has(d, "storage_accounts") /\ SaOfDoc(d).t = "map"
  /\ \E k \in DOMAIN SaOfDoc(d).v :
       LET e == SaOfDoc(d).v[k]
       IN e.t = "map" /\ (~Has(e, "account_name") \/ ~Has(e, "key"))

(* C5: a document with a storage-account entry that lacks account_name or  *)
(* key fails to load with a validation error and yields no config, however *)
(* valid the rest of it is.                                                *)
C5_EntryMissingField ==
  (Done /\ EntryLacksField(doc)) => LoadFailed

(* Cluster a's entry lacks its key, cluster b's entry and the other three  *)
(* fields are well-formed: the load has failed.                            *)
C5_Witness ==
  /\ pc = "failed"
  /\ AllPresent(doc)
  /\ SaOfDoc(doc) = SaOf(Map(Str("account_name") :> Str("n1")), Entry(Str("n2"), Str("k2")))
  /\ IsMapStrStr(SbOf(doc))
  /\ IsSeqOfStr(Get(doc, "queues"))
  /\ IsStr(Get(doc, "vault_dir"))

(* The document without the keys the schema does not declare. *)
Declared(d) ==
  Map([k \in {Str(n) : n \in {n \in MailToilConfigSchema_fields : Has(d, n)}} |-> d.v[k]])

HasExtra(d) == d.t = "map" /\ DOMAIN d.v # DOMAIN Declared(d).v

(* C6: a valid document with extra top-level keys loads, and to the config *)
(* the same document without them loads to.                                *)
C6_UnknownTopLevelIgnored ==
  (Done /\ doc.t = "map" /\ WellFormed(Declared(doc))) =>
    /\ pc = "loaded"
    /\ CONFIG_SCHEMA_load(Declared(doc)).raised = "none"
    /\ config = CONFIG_SCHEMA_load(Declared(doc)).val

(* A document with both extra keys was loaded. *)
C6_Witness ==
  /\ pc = "loaded"
  /\ HasExtra(doc)
  /\ {Str(e) : e \in ExtraKeys} \subseteq DOMAIN doc.v
  /\ config.vault_dir = "/vault"

WrongShape(d) ==
  /\ d.t = "map"
  /\ \/ Has(d, "queues") /\ ~IsSeqOfStr(Get(d, "queues"))
     \/ Has(d, "service_bus_connection_strings") /\ ~IsMapStrStr(SbOf(d))
     \/ /\ Has(d, "storage_accounts")
        /\ \/ SaOfDoc(d).t # "map"
           \/ \E k \in DOMAIN SaOfDoc(d).v : ~HasAccountFields(SaOfDoc(d).v[k])
     \/ Has(d, "vault_dir") /\ ~IsStr(Get(d, "vault_dir"))

C8_RoundTrip ==
  /\ pc # "failed"
  /\ pc = "start" => doc.t = "map"
  /\ pc = "loaded" =>
       /\ config.service_bus_connection_strings = original.service_bus_connection_strings
       /\ Len(config.queues) = Len(original.queues)
       /\ \A i \in 1..Len(original.queues) : config.queues[i] = original.queues[i]
       /\ config.vault_dir = original.vault_dir
       /\ DOMAIN config.storage_accounts = DOMAIN original.storage_accounts
       /\ \A c \in DOMAIN original.storage_accounts :
            /\ config.storage_accounts[c].account_name
                 = original.storage_accounts[c].account_name
            /\ config.storage_accounts[c].key = original.storage_accounts[c].key

(* An object with two accounts, two queues and an empty connection string  *)
(* went through dump and load.                                             *)
C8_Witness ==
  /\ pc = "loaded"
  /\ original # NoConfig
  /\ original.queues = <<"q2", "q1">>
  /\ DOMAIN original.storage_accounts = Clusters
  /\ original.storage_accounts["a"] = StorageAccount("n1", "k1")
  /\ "a" \in DOMAIN original.service_bus_connection_strings
  /\ original.service_bus_connection_strings["a"] = ""

(* C9: the accessors change nothing: after any calls, failed or not, the   *)
(* config is the one the load built, and a call after a failed one still   *)
(* gives a present cluster its value.                                      *)
C9_AccessorsReadOnly ==
  pc = "loaded" =>
    /\ config = CONFIG_SCHEMA_load(doc).val
    /\ (/\ hadFailure
        /\ lastCall.op = "get_service_bus_connection_str"
        /\ Str(lastCall.arg) \in DOMAIN SbOf(doc).v
        /\ SbOf(doc).v[Str(lastCall.arg)] # Str(""))
       => lastCall.raised = "none" /\ lastCall.str = SbOf(doc).v[Str(lastCall.arg)].v
    /\ (/\ hadFailure
        /\ lastCall.op = "get_storage_account"
        /\ Str(lastCall.arg) \in DOMAIN SaOfDoc(doc).v)
       => /\ lastCall.raised = "none"
          /\ lastCall.acct.account_name
               = Get(SaOfDoc(doc).v[Str(lastCall.arg)], "account_name").v

(* After a call that failed, a lookup of a present cluster succeeded. *)
C9_Witness ==
  /\ pc = "loaded"
  /\ hadFailure
  /\ lastCall.op = "get_service_bus_connection_str"
  /\ lastCall.raised = "none"
  /\ lastCall.str = "cs1"

EntryHasUnknownKey(d) ==
  /\ d.t = "map" /\ Has(d, "storage_accounts") /\ SaOfDoc(d).t = "map"
  /\ \E k \in DOMAIN SaOfDoc(d).v :
       LET e == SaOfDoc(d).v[k]
       IN e.t = "map" /\ ~(DOMAIN e.v \subseteq {Str("account_name"), Str("key")})

(* C10: a key other than account_name and key inside a storage-account     *)
(* entry makes the load fail, with no config returned, while a key the     *)
(* schema does not declare at the top level of a well-formed document does *)
(* not.                                                                    *)
C10_NestedUnknownRejected ==
  /\ (Done /\ EntryHasUnknownKey(doc)) => LoadFailed
  /\ (Done /\ HasExtra(doc) /\ WellFormed(doc)) => pc = "loaded"

(* The document is well-formed but for the key sku in cluster a's entry;   *)
(* the load has failed.                                                    *)
C10_Witness ==
  /\ pc = "failed"
  /\ AllPresent(doc)
  /\ SaOfDoc(doc) =
       SaOf(Map(Str("account_name") :> Str("n1") @@ Str("key") :> Str("k1")
                  @@ Str("sku") :> Str("x")),
            Entry(Str("n2"), Str("k2")))
  /\ IsMapStrStr(SbOf(doc))
  /\ IsSeqOfStr(Get(doc, "queues"))
  /\ IsStr(Get(doc, "vault_dir"))

====
